---- MODULE Spec2Model ----
(***************************************************************************)
(* A model of class Crypto of IoT_crypto/main.cpp: the hex codec, key     *)
(* derivation, ECDSA sign/verify, ECDH key agreement and AES-CCM          *)
(* encrypt/decrypt, together with the parts of the OpenSSL and C++        *)
(* library behaviour that decide what the class's functions return.       *)
(*                                                                         *)
(* A std::string and a byte buffer are sequences of character codes       *)
(* 0..255.  The buffer widths are the program's (32, 65, 12, 16, 28).     *)
(* The elliptic-curve group is a stand-in for prime256v1: the curve       *)
(* y^2 = x^3 + 2x + 2 over GF(17), whose 19 points form a group of prime  *)
(* order generated by (5, 1); SHA-256 and the AES block function are      *)
(* small stand-in functions; CTR/CBC-MAC structure, DER, point encoding   *)
(* and the EVP call protocol are modelled as the library implements them. *)
(***************************************************************************)
EXTENDS Integers, Sequences, FiniteSets, TLC

VARIABLES emptyNull, prev, cur

vars == <<emptyNull, prev, cur>>

(***************************************************************************)
(* Bounds of the model.                                                    *)
(***************************************************************************)
MaxHexLen == 3
MaxMsgLen == 2
MaxSignedLen == 1
NumNonces == 2

(***************************************************************************)
(* Characters.                                                             *)
(***************************************************************************)
ChPlus == 43
ChMinus == 45

\* isspace() in the "C" locale
IsSpace(c) == c \in {32, 9, 10, 11, 12, 13}

\* the value of a base-16 digit, -1 for any other character
HexDigitTable ==
    [c \in 0..255 |->
        IF c >= 48 /\ c <= 57 THEN c - 48
        ELSE IF c >= 97 /\ c <= 102 THEN c - 87
        ELSE IF c >= 65 /\ c <= 70 THEN c - 55
        ELSE -1]

HexDigitVal(c) == HexDigitTable[c]

IsHexDigit(c) == HexDigitVal(c) >= 0

HexChar(n) == IF n < 10 THEN 48 + n ELSE 87 + n

(***************************************************************************)
(* std::stoi(s, nullptr, 16) on the one or two characters hexToBytes      *)
(* hands it: strtol skips leading white space, takes an optional sign,    *)
(* then the longest run of hex digits ("0x" is a prefix only when a digit *)
(* follows it), and stoi throws std::invalid_argument when no digit was   *)
(* converted.  Trailing characters are ignored.                           *)
(***************************************************************************)
StoiDigits(s, from, neg) ==
    IF from > Len(s) \/ ~IsHexDigit(s[from])
    THEN [ok |-> FALSE, val |-> 0]
    ELSE LET d1 == HexDigitVal(s[from])
             v == IF from + 1 <= Len(s) /\ IsHexDigit(s[from + 1])
                  THEN 16 * d1 + HexDigitVal(s[from + 1])
                  ELSE d1
         IN [ok |-> TRUE, val |-> IF neg THEN 0 - v ELSE v]

Stoi16(s) ==
    IF Len(s) = 0 THEN [ok |-> FALSE, val |-> 0]
    ELSE IF IsHexDigit(s[1]) THEN StoiDigits(s, 1, FALSE)
    ELSE IF IsSpace(s[1]) THEN
        IF Len(s) >= 2 /\ s[2] \in {ChPlus, ChMinus}
        THEN StoiDigits(s, 3, s[2] = ChMinus)
        ELSE StoiDigits(s, 2, FALSE)
    ELSE IF s[1] \in {ChPlus, ChMinus} THEN StoiDigits(s, 2, s[1] = ChMinus)
    ELSE StoiDigits(s, 1, FALSE)

\* static_cast<unsigned char>(int)
ToUChar(v) == ((v % 256) + 256) % 256

\* hex.substr(i, 2) with i counted from 1
Substr2(hex, i) == SubSeq(hex, i, IF i + 1 <= Len(hex) THEN i + 1 ELSE Len(hex))

\* the loop of hexToBytes: chunk j is hex.substr(2(j-1), 2); the first chunk
\* stoi rejects ends the call with its exception
HexLoop(hex) ==
    LET n == (Len(hex) + 1) \div 2
        chunk == [j \in 1..n |-> Stoi16(Substr2(hex, 2 * j - 1))]
    IN IF \E j \in 1..n : ~chunk[j].ok
       THEN [ok |-> FALSE, bytes |-> <<>>]
       ELSE [ok |-> TRUE, bytes |-> [j \in 1..n |-> ToUChar(chunk[j].val)]]

\* Crypto::hexToBytes: ok = FALSE stands for the std::invalid_argument of stoi
hexToBytes(hex) == HexLoop(hex)

\* Crypto::bytesToHex: two lower-case digits per byte
bytesToHex(data) ==
    [i \in 1..(2 * Len(data)) |->
        LET b == data[(i + 1) \div 2]
        IN IF i % 2 = 1 THEN HexChar(b \div 16) ELSE HexChar(b % 16)]

(***************************************************************************)
(* Big numbers and the digest.                                             *)
(***************************************************************************)
\* BN_bin2bn: the big-endian value of a byte buffer (0 for an empty one)
RECURSIVE BinToBnFrom(_, _, _)
BinToBnFrom(bytes, i, acc) ==
    IF i > Len(bytes) THEN acc
    ELSE BinToBnFrom(bytes, i + 1, 256 * acc + bytes[i])

BinToBn(bytes) == BinToBnFrom(bytes, 1, 0)

\* the minimal big-endian bytes of a value (none for 0)
RECURSIVE BnToBin(_)
BnToBin(v) == IF v = 0 THEN <<>> ELSE Append(BnToBin(v \div 256), v % 256)

\* BN_bn2binpad(v, out, n): big-endian, zero-padded on the left to n bytes
BnToBinPad(v, n) ==
    LET b == BnToBin(v)
    IN [i \in 1..n |-> IF i <= n - Len(b) THEN 0 ELSE b[i - (n - Len(b))]]

RECURSIVE BitLen(_)
BitLen(v) == IF v = 0 THEN 0 ELSE 1 + BitLen(v \div 2)

\* stand-in for the SHA-256 compression of a message
RECURSIVE Absorb(_, _, _)
Absorb(m, i, acc) ==
    IF i > Len(m) THEN acc
    ELSE Absorb(m, i + 1, (acc * 31 + m[i] + 1) % 65521)

DigestLen == 32

\* EVP_DigestInit_ex / Update / Final_ex with EVP_sha256(): a 32-byte digest
Sha256(m) ==
    LET h == Absorb(m, 1, 5381 + Len(m))
    IN [i \in 1..DigestLen |-> ((h + i) * (2 * i + 1) + (h \div 256)) % 256]

(***************************************************************************)
(* The curve (a stand-in for NID_X9_62_prime256v1) and its group law.     *)
(***************************************************************************)
CurveP == 17
CurveA == 2
CurveB == 2
CurveGx == 5
CurveGy == 1
CurveOrder == 19
FieldLen == 32

Inf == [inf |-> TRUE, x |-> 0, y |-> 0]
Pt(x, y) == [inf |-> FALSE, x |-> x, y |-> y]
G == Pt(CurveGx, CurveGy)

ModP(v) == ((v % CurveP) + CurveP) % CurveP
InvPTable ==
    [a \in 1..(CurveP - 1) |-> CHOOSE b \in 1..(CurveP - 1) : (a * b) % CurveP = 1]
InvOrdTable ==
    [a \in 1..(CurveOrder - 1) |->
        CHOOSE b \in 1..(CurveOrder - 1) : (a * b) % CurveOrder = 1]

\* inverses modulo p and modulo the group order
InvP(a) == InvPTable[ModP(a)]
InvOrd(a) == InvOrdTable[a % CurveOrder]

\* EC_POINT_is_on_curve
OnCurve(p) ==
    p.inf \/ ModP(p.y * p.y) = ModP(p.x * p.x * p.x + CurveA * p.x + CurveB)

PointAdd(p, q) ==
    IF p.inf THEN q
    ELSE IF q.inf THEN p
    ELSE IF p.x = q.x /\ ModP(p.y + q.y) = 0 THEN Inf
    ELSE LET lam == IF p = q
                    THEN ModP((3 * p.x * p.x + CurveA) * InvP(2 * p.y))
                    ELSE ModP((q.y - p.y) * InvP(q.x - p.x))
             x3 == ModP(lam * lam - p.x - q.x)
         IN Pt(x3, ModP(lam * (p.x - x3) - p.y))

RECURSIVE PointMulRec(_, _)
PointMulRec(k, p) ==
    IF k = 0 THEN Inf
    ELSE IF k % 2 = 1 THEN PointAdd(p, PointMulRec(k - 1, p))
    ELSE LET h == PointMulRec(k \div 2, p) IN PointAdd(h, h)

\* a multiplication that takes the generator whatever point it is given
PointMulOfGenerator(k, p) == PointMulRec(k % CurveOrder, G)

\* EC_POINT_mul(group, r, NULL, p, k, ctx) for a point of the group: k * p
PointMul(k, p) == PointMulRec(k % CurveOrder, p)

BaseMulTable == [k \in 0..(CurveOrder - 1) |-> PointMulRec(k, G)]

\* EC_POINT_mul(group, r, k, NULL, NULL, ctx): k * G
BaseMul(k) == BaseMulTable[k % CurveOrder]

\* the points of the group other than the point at infinity
GroupPoints == {BaseMul(k) : k \in 1..(CurveOrder - 1)}

(***************************************************************************)
(* Point encoding.                                                         *)
(***************************************************************************)
\* EC_POINT_point2oct(group, p, POINT_CONVERSION_UNCOMPRESSED, buf, 65, NULL)
Point2Oct(p) ==
    IF p.inf THEN <<0>>
    ELSE <<4>> \o BnToBinPad(p.x, FieldLen) \o BnToBinPad(p.y, FieldLen)

\* the y of EC_POINT_set_compressed_coordinates: the root of the right parity
CompressedYs(x, ybit) ==
    {y \in 0..(CurveP - 1) : OnCurve(Pt(x, y)) /\ y % 2 = ybit}

(* EC_POINT_oct2point(group, point, buf, len, NULL) on a point fresh from   *)
(* EC_POINT_new (which is the point at infinity).  pt is what the point     *)
(* object holds on return: on a failure before the coordinates are set it   *)
(* is still the point at infinity, and EC_POINT_set_affine_coordinates      *)
(* stores the coordinates before it finds them off the curve.               *)
Oct2Point(buf) ==
    IF Len(buf) = 0 THEN [ok |-> FALSE, pt |-> Inf]
    ELSE LET ybit == buf[1] % 2
             form == buf[1] - ybit
         IN IF form \notin {0, 2, 4, 6} THEN [ok |-> FALSE, pt |-> Inf]
            ELSE IF form \in {0, 4} /\ ybit = 1 THEN [ok |-> FALSE, pt |-> Inf]
            ELSE IF form = 0
                 THEN [ok |-> Len(buf) = 1, pt |-> Inf]
            ELSE IF Len(buf) # (IF form = 2 THEN 1 + FieldLen ELSE 1 + 2 * FieldLen)
                 THEN [ok |-> FALSE, pt |-> Inf]
            ELSE LET x == BinToBn(SubSeq(buf, 2, 1 + FieldLen))
                 IN IF x >= CurveP THEN [ok |-> FALSE, pt |-> Inf]
                    ELSE IF form = 2
                    THEN LET ys == CompressedYs(x, ybit)
                         IN IF ys = {} THEN [ok |-> FALSE, pt |-> Inf]
                            ELSE [ok |-> TRUE, pt |-> Pt(x, CHOOSE y \in ys : TRUE)]
                    ELSE LET y == BinToBn(SubSeq(buf, 2 + FieldLen, 1 + 2 * FieldLen))
                         IN IF y >= CurveP THEN [ok |-> FALSE, pt |-> Inf]
                            ELSE IF form = 6 /\ ybit # y % 2
                                 THEN [ok |-> FALSE, pt |-> Inf]
                            ELSE [ok |-> OnCurve(Pt(x, y)), pt |-> Pt(x, y)]

(***************************************************************************)
(* DER signatures and ECDSA.                                               *)
(***************************************************************************)
\* one DER INTEGER: minimal big-endian, a leading 0 when the top bit is set
DerInt(v) ==
    LET b == BnToBin(v)
        c == IF Len(b) = 0 THEN <<0>>
             ELSE IF b[1] >= 128 THEN <<0>> \o b ELSE b
    IN <<2, Len(c)>> \o c

\* i2d_ECDSA_SIG: SEQUENCE { INTEGER r, INTEGER s }
I2dEcdsaSig(r, s) ==
    LET body == DerInt(r) \o DerInt(s)
    IN <<48, Len(body)>> \o body

\* a DER length at pos, the content of which must end at or before last
DerLength(buf, pos, last) ==
    IF pos > last THEN [ok |-> FALSE, len |-> 0, next |-> pos]
    ELSE IF buf[pos] < 128
         THEN [ok |-> pos + buf[pos] <= last, len |-> buf[pos], next |-> pos + 1]
    ELSE IF buf[pos] = 129 /\ pos + 1 <= last
         THEN [ok |-> pos + 1 + buf[pos + 1] <= last,
               len |-> buf[pos + 1], next |-> pos + 2]
    ELSE IF buf[pos] = 130 /\ pos + 2 <= last
         THEN [ok |-> pos + 2 + 256 * buf[pos + 1] + buf[pos + 2] <= last,
               len |-> 256 * buf[pos + 1] + buf[pos + 2], next |-> pos + 3]
    ELSE [ok |-> FALSE, len |-> 0, next |-> pos]

\* one non-negative, minimally encoded INTEGER at pos
DerReadInt(buf, pos, last) ==
    IF pos > last \/ buf[pos] # 2 THEN [ok |-> FALSE, val |-> 0, next |-> pos]
    ELSE LET l == DerLength(buf, pos + 1, last)
         IN IF ~l.ok \/ l.len = 0 THEN [ok |-> FALSE, val |-> 0, next |-> pos]
            ELSE LET c == SubSeq(buf, l.next, l.next + l.len - 1)
                 IN IF c[1] >= 128 \/ (Len(c) > 1 /\ c[1] = 0 /\ c[2] < 128)
                    THEN [ok |-> FALSE, val |-> 0, next |-> pos]
                    ELSE [ok |-> TRUE, val |-> BinToBn(c), next |-> l.next + l.len]

\* d2i_ECDSA_SIG(nullptr, &p, len): ok = FALSE is the NULL it returns
D2iEcdsaSig(buf) ==
    IF Len(buf) = 0 \/ buf[1] # 48 THEN [ok |-> FALSE, r |-> 0, s |-> 0]
    ELSE LET l == DerLength(buf, 2, Len(buf))
         IN IF ~l.ok THEN [ok |-> FALSE, r |-> 0, s |-> 0]
            ELSE LET last == l.next + l.len - 1
                     r == DerReadInt(buf, l.next, last)
                     s == DerReadInt(buf, r.next, last)
                 IN IF r.ok /\ s.ok /\ s.next = last + 1
                    THEN [ok |-> TRUE, r |-> r.val, s |-> s.val]
                    ELSE [ok |-> FALSE, r |-> 0, s |-> 0]

\* the digest as ECDSA uses it: its leftmost BitLen(order) bits
DigestToScalar(hash) ==
    LET bits == BitLen(CurveOrder)
        n == IF 8 * Len(hash) > bits THEN (bits + 7) \div 8 ELSE Len(hash)
        m == BinToBn(SubSeq(hash, 1, n))
    IN IF 8 * n > bits THEN m \div (2 ^ (8 - (bits % 8))) ELSE m

\* a signing round whose s leaves the private key out
EcdsaSignRoundNoKey(hash, d, k) ==
    LET r == BaseMul(k).x % CurveOrder
        s == (InvOrd(k) * DigestToScalar(hash)) % CurveOrder
    IN [ok |-> r # 0 /\ s # 0, r |-> r, s |-> s]

(* One round of ECDSA_do_sign with per-signature nonce k in 1..order-1:     *)
(* r = x(kG) mod order, s = (e + r d) / k mod order.  The library draws a   *)
(* new k while r = 0 or s = 0, so the k a call ends on has ok = TRUE.      *)
EcdsaSignRound(hash, d, k) ==
    LET r == BaseMul(k).x % CurveOrder
        s == (InvOrd(k) * ((DigestToScalar(hash) + r * (d % CurveOrder)) % CurveOrder))
                 % CurveOrder
    IN [ok |-> r # 0 /\ s # 0, r |-> r, s |-> s]

(* ECDSA_do_verify(hash, 32, sig, key): 1 valid, 0 invalid, -1 error.  It   *)
(* uses the key's public point as it is: nothing checks that the point was  *)
(* ever set or is on the curve.  Arithmetic on a point that is not on the   *)
(* curve has no defined result: junk (-1, 0 or 1) is what the call then     *)
(* returns.                                                                 *)
EcdsaDoVerify(hash, sig, Q, junk) ==
    IF ~sig.ok THEN -1
    ELSE IF sig.r < 1 \/ sig.r >= CurveOrder \/ sig.s < 1 \/ sig.s >= CurveOrder
    THEN 0
    ELSE LET w == InvOrd(sig.s)
             u1 == (DigestToScalar(hash) * w) % CurveOrder
             u2 == (sig.r * w) % CurveOrder
             point == PointAdd(BaseMul(u1), PointMul(u2, Q))
         IN IF ~OnCurve(Q) THEN junk
            ELSE IF point.inf THEN -1
            ELSE IF point.x % CurveOrder = sig.r THEN 1 ELSE 0

(***************************************************************************)
(* AES-128-CCM behind the EVP interface.                                   *)
(***************************************************************************)
NonceLen == 12
TagLen == 16
KeyLen == 16
MinEnvelopeLen == 28
SizeMax == 2147483647

\* a - b in size_t arithmetic (SIZE_MAX reduced to 31 bits)
SizeSub(a, b) == IF a >= b THEN a - b ELSE SizeMax - (b - a) + 1

RECURSIVE XorBits(_, _, _)
XorBits(a, b, n) ==
    IF n = 0 THEN 0
    ELSE ((a + b) % 2) + 2 * XorBits(a \div 2, b \div 2, n - 1)

Xor(a, b) == XorBits(a, b, 8)

RECURSIVE WeightedSum(_, _)
WeightedSum(bytes, i) ==
    IF i > Len(bytes) THEN 0
    ELSE ((2 * i + 1) * bytes[i] + WeightedSum(bytes, i + 1)) % 65521

\* stand-in for the AES block function under key on counter block (iv, j)
BlockByte(key, iv, j) ==
    (WeightedSum(key, 1) * (j + 3) + WeightedSum(iv, 1) * (2 * j + 5) + 11 * j) % 256

\* counter mode: byte j of the data is xor-ed with byte j of the key stream
CtrCrypt(key, iv, data) ==
    [j \in 1..Len(data) |-> Xor(data[j], BlockByte(key, iv, j))]

\* the CBC-MAC of (iv, length, plaintext), encrypted with counter block 0
MacTag(key, iv, pt) ==
    LET m == (Absorb(pt, 1, 977 + Len(pt)) + 3 * WeightedSum(iv, 1)
                + 5 * WeightedSum(key, 1)) % 65521
    IN [i \in 1..TagLen |-> Xor((m * (i + 1) + (m \div 256) + i) % 256,
                                BlockByte(key, iv, 256 + i))]

\* EVP_CIPHER_CTX_new, then EVP_{En,De}cryptInit_ex(ctx, EVP_aes_128_ccm(), ...)
\* and EVP_CTRL_CCM_SET_IVLEN 12 (L = 15 - 12 = 3 length bytes)
CcmNew(enc) ==
    [enc |-> enc, key_set |-> FALSE, iv_set |-> FALSE, len_set |-> FALSE,
     tag_set |-> FALSE, key |-> <<>>, iv |-> <<>>, tag |-> <<>>]

\* EVP_CTRL_CCM_SET_TAG with a tag (decryption): the expected tag is stored
CcmSetTag(ctx, tag) == [ctx EXCEPT !.tag_set = TRUE, !.tag = tag]

\* EVP_{En,De}cryptInit_ex(ctx, nullptr, nullptr, key, iv): the first 16 bytes
\* of the key buffer are the AES-128 key
CcmInit(ctx, keyBuf, iv) ==
    [ctx EXCEPT !.key_set = TRUE, !.iv_set = TRUE,
                !.key = SubSeq(keyBuf, 1, KeyLen), !.iv = iv]

\* ccm_set_iv: the message length must fit the L = 3 length bytes
CcmLenFits(len) == len < 2 ^ (8 * (15 - NonceLen))

(* EVP_EncryptUpdate / EVP_DecryptUpdate / EVP_EncryptFinal_ex on a CCM      *)
(* context (ccm_cipher_internal).  What the call does follows from which of  *)
(* its pointers are null:                                                    *)
(*   in = NULL, out = NULL   set the message length                          *)
(*   in = NULL, out # NULL   Final: nothing to do                            *)
(*   in # NULL, out = NULL   in is additional authenticated data             *)
(*   in # NULL, out # NULL   encrypt and compute the tag, or decrypt and     *)
(*                           compare the tag                                 *)
(* rv is the call's success, out the bytes written, ran says whether the     *)
(* authenticated encryption or decryption itself was performed.              *)
CcmCipher(ctx, outNull, inNull, in, len) ==
    LET fail == [rv |-> FALSE, ctx |-> ctx, out |-> <<>>, ran |-> FALSE]
        done(c) == [rv |-> TRUE, ctx |-> c, out |-> <<>>, ran |-> FALSE]
    IN IF ~ctx.key_set THEN fail
       ELSE IF inNull
       THEN IF ~outNull THEN done(ctx)
            ELSE IF CcmLenFits(len) THEN done([ctx EXCEPT !.len_set = TRUE])
            ELSE fail
       ELSE IF outNull
       THEN IF ~ctx.len_set /\ len > 0 THEN fail ELSE done(ctx)
       ELSE IF ~ctx.len_set /\ ~CcmLenFits(len) THEN fail
       ELSE IF ctx.enc
       THEN [rv |-> TRUE,
             ctx |-> [ctx EXCEPT !.len_set = TRUE, !.tag_set = TRUE,
                                 !.tag = MacTag(ctx.key, ctx.iv, in)],
             out |-> CtrCrypt(ctx.key, ctx.iv, in), ran |-> TRUE]
       ELSE IF ~ctx.tag_set THEN fail
       ELSE LET pt == CtrCrypt(ctx.key, ctx.iv, in)
                reset == [ctx EXCEPT !.iv_set = FALSE, !.tag_set = FALSE,
                                     !.len_set = FALSE]
            IN IF MacTag(ctx.key, ctx.iv, pt) = ctx.tag
               THEN [rv |-> TRUE, ctx |-> reset, out |-> pt, ran |-> TRUE]
               ELSE [rv |-> FALSE, ctx |-> reset, out |-> <<>>, ran |-> TRUE]

\* EVP_CTRL_CCM_GET_TAG: only an encrypting context that has computed a tag
CcmGetTag(ctx) ==
    IF ctx.enc /\ ctx.tag_set THEN [rv |-> TRUE, tag |-> ctx.tag]
    ELSE [rv |-> FALSE, tag |-> <<>>]

\* std::vector<unsigned char>(n).data(): null or not for n = 0, as the
\* standard library in use has it; never null otherwise
DataIsNull(n, emptyIsNull) == n = 0 /\ emptyIsNull

(***************************************************************************)
(* Results and calls.                                                      *)
(***************************************************************************)
ErrInvalidArgument == "std::invalid_argument: stoi"

Ok(val, ev) == [st |-> "ok", val |-> val, ret |-> FALSE, err |-> "", ev |-> ev]
OkBool(b, ev) == [st |-> "ok", val |-> <<>>, ret |-> b, err |-> "", ev |-> ev]
Throw(err, ev) == [st |-> "throw", val |-> <<>>, ret |-> FALSE, err |-> err, ev |-> ev]

NoCall == [op |-> "none"]

Call(op, a, b, c, rnd, fault, out) ==
    [op |-> op, a |-> a, b |-> b, c |-> c, rnd |-> rnd, fault |-> fault, out |-> out]

(***************************************************************************)
(* The operations of class Crypto.  ev lists, in order, the handles an     *)
(* operation allocated and released and the library steps it reached.      *)
(***************************************************************************)
New(h) == <<"new", h>>
Free(h) == <<"free", h>>
Lib(f) == <<"call", f>>

\* Crypto::generatePrivateKey; d is the scalar EC_KEY_generate_key drew
generatePrivateKey(d, fault) ==
    IF fault = "EC_KEY_new" THEN Throw("Failed to create EC_KEY", <<>>)
    ELSE IF fault = "EC_KEY_generate_key"
    THEN Throw("Failed to generate private key", <<New("key"), Free("key")>>)
    ELSE Ok(bytesToHex(BnToBinPad(d, FieldLen)), <<New("key"), Free("key")>>)

\* Crypto::derivePublicKey
derivePublicKey(privateKeyHex, fault) ==
    IF fault = "EC_KEY_new" THEN Throw("Failed to create EC_KEY", <<>>)
    ELSE LET e1 == <<New("key"), New("priv")>>
             privateKeyBytes == hexToBytes(privateKeyHex)
         IN IF ~privateKeyBytes.ok THEN Throw(ErrInvalidArgument, e1)
            ELSE IF fault = "EC_KEY_set_private_key"
            THEN Throw("Failed to set private key", e1 \o <<Free("priv"), Free("key")>>)
            ELSE LET e2 == e1 \o <<New("pub"), Lib("EC_POINT_mul")>>
                     frees == <<Free("pub"), Free("priv"), Free("key")>>
                 IN IF fault = "EC_POINT_mul"
                    THEN Throw("Failed to compute public key", e2 \o frees)
                    ELSE Ok(bytesToHex(Point2Oct(BaseMul(BinToBn(privateKeyBytes.bytes)))),
                            e2 \o frees)

\* Crypto::sign; k is the nonce ECDSA_do_sign ends on
sign(message, privateKeyHex, k, fault) ==
    LET e1 == <<New("key"), New("priv")>>
        privateKeyBytes == hexToBytes(privateKeyHex)
    IN IF ~privateKeyBytes.ok THEN Throw(ErrInvalidArgument, e1)
       ELSE LET e2 == e1 \o <<New("mdctx"), Lib("digest"), Free("mdctx"),
                              Lib("ECDSA_do_sign")>>
            IN IF fault = "ECDSA_do_sign"
               THEN Throw("Failed to create signature",
                          e2 \o <<Free("priv"), Free("key")>>)
               ELSE LET signature == EcdsaSignRound(Sha256(message),
                                                    BinToBn(privateKeyBytes.bytes), k)
                    IN Ok(bytesToHex(I2dEcdsaSig(signature.r, signature.s)),
                          e2 \o <<New("signature"), New("der"), Free("der"),
                                  Free("signature"), Free("priv"), Free("key")>>)

\* Crypto::verify
verify(signatureHex, message, publicKeyHex, junk) ==
    LET e1 == <<New("key"), New("pub")>>
        publicKeyBytes == hexToBytes(publicKeyHex)
    IN IF ~publicKeyBytes.ok THEN Throw(ErrInvalidArgument, e1)
       ELSE LET pub == Oct2Point(publicKeyBytes.bytes).pt
                e2 == e1 \o <<Lib("EC_POINT_oct2point"), New("mdctx"), Lib("digest"),
                              Free("mdctx")>>
                sigBytes == hexToBytes(signatureHex)
            IN IF ~sigBytes.ok THEN Throw(ErrInvalidArgument, e2)
               ELSE LET signature == D2iEcdsaSig(sigBytes.bytes)
                        result == EcdsaDoVerify(Sha256(message), signature, pub, junk)
                    IN OkBool(result = 1,
                              e2 \o (IF signature.ok THEN <<New("signature")>> ELSE <<>>)
                                 \o <<Lib("ECDSA_do_verify")>>
                                 \o (IF signature.ok THEN <<Free("signature")>> ELSE <<>>)
                                 \o <<Free("pub"), Free("key")>>)

\* Crypto::getSharedKey
getSharedKey(secretKeyHex, publicKeyHex, fault) ==
    IF fault = "EC_KEY_new" THEN Throw("Failed to create EC_KEY for private key", <<>>)
    ELSE LET e1 == <<New("privateKey"), New("priv")>>
             secretKeyBytes == hexToBytes(secretKeyHex)
         IN IF ~secretKeyBytes.ok THEN Throw(ErrInvalidArgument, e1)
            ELSE IF fault = "EC_KEY_set_private_key"
            THEN Throw("Failed to set private key",
                       e1 \o <<Free("priv"), Free("privateKey")>>)
            ELSE LET e2 == e1 \o <<New("pub")>>
                     publicKeyBytes == hexToBytes(publicKeyHex)
                 IN IF ~publicKeyBytes.ok THEN Throw(ErrInvalidArgument, e2)
                    ELSE LET pub == Oct2Point(publicKeyBytes.bytes)
                             e3 == e2 \o <<Lib("EC_POINT_oct2point")>>
                         IN IF ~pub.ok
                            THEN Throw("Failed to create public key point",
                                       e3 \o <<Free("pub"), Free("priv"),
                                               Free("privateKey")>>)
                            ELSE LET e4 == e3 \o <<New("sharedSecretBN"),
                                                   New("sharedPoint"), Lib("EC_POINT_mul")>>
                                     frees == <<Free("sharedSecretBN"), Free("sharedPoint"),
                                                Free("pub"), Free("priv"),
                                                Free("privateKey")>>
                                     sharedPoint ==
                                         PointMul(BinToBn(secretKeyBytes.bytes), pub.pt)
                                 IN IF fault = "EC_POINT_mul"
                                    THEN Throw("Failed to compute shared point", e4 \o frees)
                                    ELSE IF sharedPoint.inf
                                    THEN Throw("Failed to get shared secret",
                                               e4 \o <<Lib("EC_POINT_get_affine_coordinates")>>
                                                  \o frees)
                                    ELSE Ok(bytesToHex(BnToBinPad(sharedPoint.x, FieldLen)),
                                            e4 \o <<Lib("EC_POINT_get_affine_coordinates")>>
                                               \o frees)

\* an envelope with the nonce field left zero
EnvelopeZeroNonce(nonce, ciphertext, tag) ==
    [i \in 1..NonceLen |-> 0] \o ciphertext \o tag

\* Crypto::encrypt, lines 305-309: nonce, then ciphertext, then tag
Envelope(nonce, ciphertext, tag) == nonce \o ciphertext \o tag

\* Crypto::encrypt; nonce is what RAND_bytes wrote
encrypt(key, msg, nonce, emptyIsNull, fault) ==
    IF fault = "RAND_bytes" THEN Throw("Failed to generate nonce", <<>>)
    ELSE LET e1 == <<Lib("RAND_bytes"), New("mdctx"), Lib("digest"), Free("mdctx")>>
             keyHash == Sha256(key)
             ctNull == DataIsNull(Len(msg), emptyIsNull)
             e2 == e1 \o <<New("ctx")>>
             bail(err) == Throw(err, e2 \o <<Free("ctx")>>)
             c1 == CcmInit(CcmNew(TRUE), keyHash, nonce)
             u1 == CcmCipher(c1, TRUE, TRUE, <<>>, Len(msg))
             u2 == CcmCipher(u1.ctx, ctNull, FALSE, msg, Len(msg))
             u3 == CcmCipher(u2.ctx, ctNull, TRUE, <<>>, 0)
             t == CcmGetTag(u3.ctx)
             ciphertext == IF u2.ran THEN u2.out ELSE [j \in 1..Len(msg) |-> 0]
         IN IF fault = "EVP_CIPHER_CTX_new"
            THEN Throw("Failed to create cipher context", e1)
            ELSE IF fault = "EVP_EncryptInit_ex:cipher"
            THEN bail("Failed to initialize CCM mode")
            ELSE IF fault = "EVP_CIPHER_CTX_ctrl"
            THEN bail("Failed to set CCM parameters")
            ELSE IF fault = "EVP_EncryptInit_ex:key"
            THEN bail("Failed to initialize encryption")
            ELSE IF ~u1.rv THEN bail("Failed to set message length")
            ELSE IF ~u2.rv THEN bail("Failed to encrypt message")
            ELSE IF ~u3.rv THEN bail("Failed to finalize encryption")
            ELSE IF ~t.rv THEN bail("Failed to get tag")
            ELSE Ok(bytesToHex(Envelope(nonce, ciphertext, t.tag)), e2 \o <<Free("ctx")>>)

\* Crypto::decrypt, lines 329-333: where nonce, ciphertext and tag lie in the
\* decoded buffer of the given size (offsets from 0)
Split(size) ==
    [nonce |-> 0, ciphertext |-> NonceLen,
     ciphertext_len |-> SizeSub(size, MinEnvelopeLen),
     tag |-> SizeSub(size, TagLen)]

\* a length check that lets 27 bytes through
TooShortByTwo(encrypted) == Len(encrypted) < MinEnvelopeLen - 1

\* Crypto::decrypt, line 317
TooShort(encrypted) == Len(encrypted) < MinEnvelopeLen

\* Crypto::decrypt
decrypt(key, encryptedHex, emptyIsNull, fault) ==
    LET encrypted == hexToBytes(encryptedHex)
    IN IF ~encrypted.ok THEN Throw(ErrInvalidArgument, <<>>)
       ELSE IF TooShort(encrypted.bytes)
       THEN Throw("Invalid encrypted data length", <<>>)
       ELSE LET e1 == <<New("mdctx"), Lib("digest"), Free("mdctx"), Lib("split")>>
                keyHash == Sha256(key)
                sp == Split(Len(encrypted.bytes))
            IN IF sp.ciphertext_len > Len(encrypted.bytes)
               THEN Throw("std::length_error", e1)
               ELSE LET nonce == SubSeq(encrypted.bytes, sp.nonce + 1, sp.nonce + NonceLen)
                        ciphertext == SubSeq(encrypted.bytes, sp.ciphertext + 1,
                                             sp.ciphertext + sp.ciphertext_len)
                        tag == SubSeq(encrypted.bytes, sp.tag + 1, sp.tag + TagLen)
                        ptNull == DataIsNull(sp.ciphertext_len, emptyIsNull)
                        e2 == e1 \o <<New("ctx")>>
                        c1 == CcmInit(CcmSetTag(CcmNew(FALSE), tag), keyHash, nonce)
                        u1 == CcmCipher(c1, TRUE, TRUE, <<>>, sp.ciphertext_len)
                        u2 == CcmCipher(u1.ctx, ptNull, FALSE, ciphertext,
                                        sp.ciphertext_len)
                        e3 == e2 \o (IF u2.ran THEN <<Lib("verify_tag")>> ELSE <<>>)
                                 \o <<Free("ctx")>>
                    IN IF fault = "EVP_CIPHER_CTX_new"
                       THEN Throw("Failed to create cipher context", e1)
                       ELSE IF fault = "EVP_DecryptInit_ex:cipher"
                       THEN Throw("Failed to initialize CCM mode", e2 \o <<Free("ctx")>>)
                       ELSE IF fault = "EVP_CIPHER_CTX_ctrl"
                       THEN Throw("Failed to set CCM parameters", e2 \o <<Free("ctx")>>)
                       ELSE IF fault = "EVP_DecryptInit_ex:key"
                       THEN Throw("Failed to initialize decryption", e2 \o <<Free("ctx")>>)
                       ELSE IF ~u1.rv
                       THEN Throw("Failed to set ciphertext length", e2 \o <<Free("ctx")>>)
                       ELSE IF ~u2.rv
                       THEN Throw("Failed to decrypt message or tag verification failed", e3)
                       ELSE Ok(u2.out, e3)

(***************************************************************************)
(* Input sets.                                                             *)
(***************************************************************************)
RECURSIVE StringsUpTo(_, _)
StringsUpTo(alphabet, n) ==
    IF n = 0 THEN {<<>>}
    ELSE LET shorter == StringsUpTo(alphabet, n - 1)
         IN shorter \cup {Append(s, c) : s \in shorter, c \in alphabet}

\* the characters 1 a F g space - 0 x
HexAlphabet == {49, 97, 70, 103, 32, ChMinus, 48, 120}
HexInputs == StringsUpTo(HexAlphabet, MaxHexLen)

\* plaintexts: byte strings, the empty one and the NUL byte included
Messages == StringsUpTo({97, 0}, MaxMsgLen)

\* messages to sign
SignedMessages == StringsUpTo({97, 0}, MaxSignedLen)

\* key material for encrypt and decrypt
KeyStrings == {<<107>>, <<119, 50>>}

\* what RAND_bytes may write into the 12-byte nonce
Nonces == {[i \in 1..NonceLen |-> (37 * n + i) % 256] : n \in 1..NumNonces}

Scalars == 1..(CurveOrder - 1)

\* the private keys generatePrivateKey returns
PrivHex(d) == bytesToHex(BnToBinPad(d, FieldLen))
PrivateKeys == {PrivHex(d) : d \in Scalars}

\* the public keys derivePublicKey returns for them
PubHex(d) == bytesToHex(Point2Oct(BaseMul(d)))
PublicKeys == {PubHex(d) : d \in Scalars}

\* "g1"
BadHex == <<103, 49>>

\* other private-key arguments: empty, not hex, zero, a one-byte scalar
OtherPrivInputs == {<<>>, BadHex, PrivHex(0), <<48, 53>>}

Coords(form, x, y) ==
    bytesToHex(<<form>> \o BnToBinPad(x, FieldLen) \o BnToBinPad(y, FieldLen))

\* other public-key arguments
OtherPubInputs ==
    { <<48, 48>>,                                       \* the point at infinity
      <<>>,                                             \* empty
      <<48>>,                                           \* odd length
      BadHex,                                           \* not hex
      Coords(4, 1, 1),                                  \* not on the curve
      Coords(4, CurveGx + CurveP, CurveGy),             \* coordinate not below p
      bytesToHex(<<4>> \o BnToBinPad(CurveGx, FieldLen)),   \* truncated
      Coords(5, CurveGx, CurveGy),                      \* bad form byte
      bytesToHex(<<3>> \o BnToBinPad(CurveGx, FieldLen)),   \* compressed
      Coords(7, CurveGx, CurveGy) }                     \* hybrid

\* the hex string with the low digit of byte b (from 1) changed
Tamper(hex, b) ==
    [hex EXCEPT ![2 * b] = IF hex[2 * b] = 48 THEN 49 ELSE 48]

\* whether verify's arithmetic runs on a point that is not on the curve
NeedsJunk(publicKeyHex) ==
    LET b == hexToBytes(publicKeyHex)
    IN b.ok /\ ~OnCurve(Oct2Point(b.bytes).pt)

\* the public-key arguments for which it does
OffCurveInputs == {p \in PublicKeys \cup OtherPubInputs : NeedsJunk(p)}

JunkResults(publicKeyHex) ==
    IF publicKeyHex \in OffCurveInputs THEN {-1, 0, 1} ELSE {0}

\* signature arguments chosen freely: every DER pair (r, s), and malformed ones
AnySignatures ==
    {bytesToHex(I2dEcdsaSig(r, s)) : r \in 0..CurveOrder, s \in 0..CurveOrder}
        \cup {<<>>, BadHex, <<48, 48>>}

\* signature arguments made from a signature sign returned
SignatureVariants(sig) ==
    {sig, Tamper(sig, Len(sig) \div 2), Tamper(sig, 1), SubSeq(sig, 1, Len(sig) - 2),
     SubSeq(sig, 1, Len(sig) - 1), sig \o BadHex, <<>>}

\* envelope arguments made from an envelope encrypt returned
EnvelopeVariants(env) ==
    {env, Tamper(env, 1), Tamper(env, NonceLen + 1), Tamper(env, Len(env) \div 2),
     SubSeq(env, 1, Len(env) - 2), SubSeq(env, 1, Len(env) - 1),
     env \o <<48, 48>>, env \o BadHex}

\* envelope arguments chosen freely
ZeroHex(n) == [i \in 1..(2 * n) |-> 48]
AnyEnvelopes ==
    {ZeroHex(n) : n \in {0, MinEnvelopeLen - 1, MinEnvelopeLen, MinEnvelopeLen + 1}}
        \cup {BadHex, [i \in 1..(2 * MinEnvelopeLen) |-> 102]}

(***************************************************************************)
(* The caller: one call at a time, either on arguments of its own or on    *)
(* what the call before returned (as main does), keeping the call before.  *)
(***************************************************************************)
Init ==
    /\ emptyNull \in BOOLEAN
    /\ prev = NoCall
    /\ cur = NoCall

Idle == cur = NoCall

\* the call before was the first of its chain and returned
After(op) == prev = NoCall /\ cur.op = op /\ cur.out.st = "ok"

CallHexToBytes ==
    /\ Idle
    /\ \E hex \in HexInputs :
         LET r == hexToBytes(hex)
         IN cur' = Call("hexToBytes", hex, <<>>, <<>>, <<>>, "none",
                        IF r.ok THEN Ok(r.bytes, <<>>)
                        ELSE Throw(ErrInvalidArgument, <<>>))
    /\ UNCHANGED <<emptyNull, prev>>

CallGeneratePrivateKey ==
    /\ Idle
    /\ \E d \in Scalars, fault \in {"none", "EC_KEY_new", "EC_KEY_generate_key"} :
         cur' = Call("generatePrivateKey", <<>>, <<>>, <<>>, <<d>>, fault,
                     generatePrivateKey(d, fault))
    /\ UNCHANGED <<emptyNull, prev>>

CallDerivePublicKey ==
    /\ \/ /\ Idle
          /\ \E privateKeyHex \in OtherPrivInputs,
                fault \in {"none", "EC_KEY_new", "EC_KEY_set_private_key", "EC_POINT_mul"} :
               cur' = Call("derivePublicKey", privateKeyHex, <<>>, <<>>, <<>>, fault,
                           derivePublicKey(privateKeyHex, fault))
       \/ /\ After("generatePrivateKey")
          /\ \E fault \in {"none", "EC_KEY_new", "EC_KEY_set_private_key", "EC_POINT_mul"} :
               cur' = Call("derivePublicKey", cur.out.val, <<>>, <<>>, <<>>, fault,
                           derivePublicKey(cur.out.val, fault))
    /\ prev' = cur
    /\ UNCHANGED emptyNull

\* the nonces a call of sign can end on
SignNonces(message, privateKeyHex) ==
    LET b == hexToBytes(privateKeyHex)
    IN IF ~b.ok THEN {1}
       ELSE {k \in Scalars : EcdsaSignRound(Sha256(message), BinToBn(b.bytes), k).ok}

CallSign ==
    /\ Idle
    /\ \E message \in SignedMessages, privateKeyHex \in PrivateKeys \cup OtherPrivInputs,
          fault \in {"none", "ECDSA_do_sign"} :
         \E k \in SignNonces(message, privateKeyHex) :
            /\ fault = "none" \/ k = 1
            /\ cur' = Call("sign", message, privateKeyHex, <<>>, <<k>>, fault,
                           sign(message, privateKeyHex, k, fault))
    /\ UNCHANGED <<emptyNull, prev>>

\* verify's arguments when they are chosen freely
FreeVerifyArgs ==
    {<<sg, m, p>> : sg \in AnySignatures, m \in SignedMessages,
                    p \in {<<48, 48>>, <<>>, BadHex, PubHex(1)}}

\* verify's arguments after sign returned: the signature, the message and the
\* signer's public key, with one of the three replaced
VerifyArgsAfter(c) ==
    LET own == derivePublicKey(c.b, "none").val
        sg == c.out.val
    IN {<<v, c.a, own>> : v \in SignatureVariants(sg)}
         \cup {<<sg, m, own>> : m \in SignedMessages}
         \cup {<<sg, c.a, p>> : p \in {PubHex(1), PubHex(2)} \cup OtherPubInputs}

CallVerify ==
    /\ \E args \in (IF Idle THEN FreeVerifyArgs
                    ELSE IF After("sign") THEN VerifyArgsAfter(cur) ELSE {}) :
         \E junk \in JunkResults(args[3]) :
            cur' = Call("verify", args[1], args[2], args[3], <<junk>>, "none",
                        verify(args[1], args[2], args[3], junk))
    /\ prev' = cur
    /\ UNCHANGED emptyNull

SharedKeyFaults == {"none", "EC_KEY_new", "EC_KEY_set_private_key", "EC_POINT_mul"}

CallGetSharedKey ==
    /\ \/ /\ Idle
          /\ \E secretKeyHex \in PrivateKeys \cup OtherPrivInputs,
                publicKeyHex \in PublicKeys \cup OtherPubInputs,
                fault \in SharedKeyFaults :
               /\ fault = "none" \/ secretKeyHex \in {PrivHex(1), BadHex}
               /\ cur' = Call("getSharedKey", secretKeyHex, publicKeyHex, <<>>, <<>>, fault,
                              getSharedKey(secretKeyHex, publicKeyHex, fault))
       \/ \* the peer's call: its own private key and this side's public key
          /\ After("getSharedKey")
          /\ cur.a \in PrivateKeys
          /\ cur.b \in PublicKeys
          /\ LET d == CHOOSE e \in Scalars : cur.b = PubHex(e)
                 own == derivePublicKey(cur.a, "none").val
             IN cur' = Call("getSharedKey", PrivHex(d), own, <<>>, <<>>, "none",
                            getSharedKey(PrivHex(d), own, "none"))
    /\ prev' = cur
    /\ UNCHANGED emptyNull

EncryptFaults ==
    {"none", "RAND_bytes", "EVP_CIPHER_CTX_new", "EVP_EncryptInit_ex:cipher",
     "EVP_CIPHER_CTX_ctrl", "EVP_EncryptInit_ex:key"}

CallEncrypt ==
    /\ \/ /\ Idle
          /\ \E key \in KeyStrings, msg \in Messages, nonce \in Nonces,
                fault \in EncryptFaults :
               cur' = Call("encrypt", key, msg, <<>>, nonce, fault,
                           encrypt(key, msg, nonce, emptyNull, fault))
       \/ \* one more call with the same key material
          /\ After("encrypt")
          /\ \E msg \in Messages, nonce \in Nonces :
               cur' = Call("encrypt", cur.a, msg, <<>>, nonce, "none",
                           encrypt(cur.a, msg, nonce, emptyNull, "none"))
    /\ prev' = cur
    /\ UNCHANGED emptyNull

DecryptFaults ==
    {"none", "EVP_CIPHER_CTX_new", "EVP_DecryptInit_ex:cipher", "EVP_CIPHER_CTX_ctrl",
     "EVP_DecryptInit_ex:key"}

CallDecrypt ==
    /\ \/ /\ Idle
          /\ \E key \in KeyStrings, encryptedHex \in AnyEnvelopes, fault \in DecryptFaults :
               cur' = Call("decrypt", key, encryptedHex, <<>>, <<>>, fault,
                           decrypt(key, encryptedHex, emptyNull, fault))
       \/ /\ After("encrypt")
          /\ \E key \in KeyStrings, encryptedHex \in EnvelopeVariants(cur.out.val),
                fault \in DecryptFaults :
               /\ fault = "none" \/ (key = cur.a /\ encryptedHex = cur.out.val)
               /\ cur' = Call("decrypt", key, encryptedHex, <<>>, <<>>, fault,
                              decrypt(key, encryptedHex, emptyNull, fault))
    /\ prev' = cur
    /\ UNCHANGED emptyNull

Return ==
    /\ ~Idle
    /\ cur' = NoCall
    /\ prev' = NoCall
    /\ UNCHANGED emptyNull

Next ==
    \/ CallHexToBytes
    \/ CallGeneratePrivateKey
    \/ CallDerivePublicKey
    \/ CallSign
    \/ CallVerify
    \/ CallGetSharedKey
    \/ CallEncrypt
    \/ CallDecrypt
    \/ Return

Spec == Init /\ [][Next]_vars

\* the codec alone
NextCodec == CallHexToBytes \/ Return
SpecCodec == Init /\ [][NextCodec]_vars

\* key generation, derivation and agreement
NextKeys ==
    \/ CallGeneratePrivateKey
    \/ CallDerivePublicKey
    \/ CallGetSharedKey
    \/ Return
SpecKeys == Init /\ [][NextKeys]_vars

\* signing and verification
NextSign == CallSign \/ CallVerify \/ Return
SpecSign == Init /\ [][NextSign]_vars

\* encryption and decryption
NextAead == CallEncrypt \/ CallDecrypt \/ Return
SpecAead == Init /\ [][NextAead]_vars

(***************************************************************************)
(* Properties.                                                             *)
(***************************************************************************)
\* every handle the events allocate is released once, later, and no other
Balanced(ev) ==
    /\ \A i \in 1..Len(ev) :
         ev[i][1] = "new" =>
            Cardinality({j \in 1..Len(ev) : ev[j] = Free(ev[i][2])}) = 1
    /\ \A j \in 1..Len(ev) :
         ev[j][1] = "free" => \E i \in 1..(j - 1) : ev[i] = New(ev[j][2])

Reached(ev, f) == \E i \in 1..Len(ev) : ev[i] = Lib(f)

\* the pairs (private key, public key) with pub = derivePublicKey(priv)
KeyPairs == {<<k, derivePublicKey(k, "none").val>> : k \in PrivateKeys}

\* a string is hex when its length is even and all its characters are digits
WellFormedHex(hex) ==
    Len(hex) % 2 = 0 /\ \A i \in 1..Len(hex) : IsHexDigit(hex[i])

\* C7: hexToBytes fails on every string of odd length and on every string
\* with a character that is not a hex digit; it never yields bytes for one.
C7_MalformedHexRejected ==
    (cur.op = "hexToBytes" /\ ~WellFormedHex(cur.a)) => cur.out.st = "throw"

\* C8: decrypt of an envelope that decodes to fewer than 28 bytes fails with
\* the length error before the key is derived, the envelope split or a cipher
\* context made; and whenever the split runs, nonce, ciphertext and tag lie
\* inside the decoded buffer and the ciphertext length is size - 28.
C8_ShortEnvelopeRejectedFirst ==
    cur.op = "decrypt" =>
        LET encrypted == hexToBytes(cur.b)
            size == Len(encrypted.bytes)
            sp == Split(size)
        IN /\ (encrypted.ok /\ size < MinEnvelopeLen) =>
                 cur.out = Throw("Invalid encrypted data length", <<>>)
           /\ Reached(cur.out.ev, "split") =>
                 /\ size >= MinEnvelopeLen
                 /\ sp.nonce + NonceLen <= sp.ciphertext
                 /\ sp.ciphertext_len = size - MinEnvelopeLen
                 /\ sp.ciphertext + sp.ciphertext_len = sp.tag
                 /\ sp.tag + TagLen = size

\* a 27-byte envelope was refused
C8_Witness ==
    /\ cur.op = "decrypt"
    /\ hexToBytes(cur.b).ok
    /\ Len(hexToBytes(cur.b).bytes) = MinEnvelopeLen - 1
    /\ cur.out.err = "Invalid encrypted data length"

\* C10: on every path out of derivePublicKey, sign, verify, getSharedKey,
\* encrypt and decrypt, every handle the operation allocated has been
\* released exactly once.
C10_NoHandleLeak ==
    cur.op \in {"generatePrivateKey", "derivePublicKey", "sign", "verify",
                "getSharedKey", "encrypt", "decrypt"}
        => Balanced(cur.out.ev)

\* a peer key that decodes to a point of the curve other than the point at
\* infinity
ValidPeerKey(publicKeyBytes) ==
    LET pub == Oct2Point(publicKeyBytes)
    IN pub.ok /\ ~pub.pt.inf /\ OnCurve(pub.pt)

\* C9: for every peer public key that does not decode to a point on the
\* curve, or decodes to the point at infinity, getSharedKey fails with the
\* public-key error before the scalar multiplication and returns no secret.
C9_PeerKeyValidatedFirst ==
    (/\ cur.op = "getSharedKey"
     /\ cur.fault = "none"
     /\ cur.a \in PrivateKeys
     /\ hexToBytes(cur.b).ok
     /\ ~ValidPeerKey(hexToBytes(cur.b).bytes))
        => /\ cur.out.st = "throw"
           /\ cur.out.err = "Failed to create public key point"
           /\ ~Reached(cur.out.ev, "EC_POINT_mul")

\* a 64-character string of lower-case hex digits
IsHex64(str) ==
    /\ Len(str) = 2 * FieldLen
    /\ \A i \in 1..Len(str) : str[i] \in (48..57) \cup (97..102)

\* C4: for any two key pairs A and B, getSharedKey(A.priv, B.pub) and
\* getSharedKey(B.priv, A.pub) both succeed and return the same 64-character
\* hex string.
C4_SharedSecretSymmetric ==
    (/\ cur.op = "getSharedKey"
     /\ prev.op = "getSharedKey"
     /\ cur.fault = "none"
     /\ prev.fault = "none"
     /\ <<prev.a, cur.b>> \in KeyPairs
     /\ <<cur.a, prev.b>> \in KeyPairs)
        => /\ prev.out.st = "ok"
           /\ cur.out.st = "ok"
           /\ cur.out.val = prev.out.val
           /\ IsHex64(cur.out.val)

\* both sides of an agreement between two different key pairs have returned
C4_Witness ==
    /\ cur.op = "getSharedKey"
    /\ prev.op = "getSharedKey"
    /\ <<prev.a, cur.b>> \in KeyPairs
    /\ <<cur.a, prev.b>> \in KeyPairs
    /\ cur.a # prev.a
    /\ cur.out.st = "ok"
    /\ cur.out.val = prev.out.val

\* C5: for every message and every key pair, verify(sign(m, priv), m, pub)
\* returns true, whichever nonce the signing ended on.
C5_SignVerifyRoundTrip ==
    (/\ cur.op = "verify"
     /\ prev.op = "sign"
     /\ prev.fault = "none"
     /\ cur.a = prev.out.val
     /\ cur.b = prev.a
     /\ <<prev.b, cur.c>> \in KeyPairs)
        => cur.out.st = "ok" /\ cur.out.ret

\* a signature of a non-empty message was verified under the signer's key
C5_Witness ==
    /\ cur.op = "verify"
    /\ prev.op = "sign"
    /\ prev.fault = "none"
    /\ cur.a = prev.out.val
    /\ cur.b = prev.a
    /\ Len(cur.b) > 0
    /\ <<prev.b, cur.c>> \in KeyPairs
    /\ prev.rnd # <<1>>
    /\ cur.out.ret

\* signatureHex is a signature of message under publicKeyHex: the key is the
\* public key of some private key, and signing the message with that private
\* key can return this string
IsSignatureOf(signatureHex, message, publicKeyHex) ==
    \E d \in Scalars, k \in Scalars :
        /\ publicKeyHex = PubHex(d)
        /\ EcdsaSignRound(Sha256(message), d, k).ok
        /\ signatureHex = sign(message, PrivHex(d), k, "none").val

\* C6: verify never throws, and returns false for every input that is not a
\* valid signature of the message under the public key.
C6_VerifyNeverThrowsNorAccepts ==
    cur.op = "verify" =>
        /\ cur.out.st = "ok"
        /\ cur.out.ret => IsSignatureOf(cur.a, cur.b, cur.c)

\* C1: for every key-material string k and every plaintext p, the empty one
\* included, encrypt(k, p) succeeds and decrypt(k, encrypt(k, p)) succeeds and
\* returns exactly p, whatever nonce encrypt drew.
C1_AeadRoundTrip ==
    /\ (cur.op = "encrypt" /\ cur.fault = "none") => cur.out.st = "ok"
    /\ (/\ cur.op = "decrypt"
        /\ cur.fault = "none"
        /\ prev.op = "encrypt"
        /\ cur.a = prev.a
        /\ cur.b = prev.out.val)
          => cur.out.st = "ok" /\ cur.out.val = prev.b

\* the tag of the envelope is the one the key derived from the key material
\* computes for the envelope's nonce and ciphertext
Authentic(key, encrypted) ==
    LET k == SubSeq(Sha256(key), 1, KeyLen)
        sp == Split(Len(encrypted))
        nonce == SubSeq(encrypted, sp.nonce + 1, sp.nonce + NonceLen)
        ciphertext == SubSeq(encrypted, sp.ciphertext + 1,
                             sp.ciphertext + sp.ciphertext_len)
        tag == SubSeq(encrypted, sp.tag + 1, sp.tag + TagLen)
    IN tag = MacTag(k, nonce, CtrCrypt(k, nonce, ciphertext))

\* C2: for every envelope of at least 28 bytes, of every ciphertext length
\* including zero, whose tag does not authenticate it under the derived key,
\* decrypt fails with the authentication error and returns no plaintext, not
\* even an empty one.
C2_NoPlaintextWithoutTag ==
    (/\ cur.op = "decrypt"
     /\ cur.fault = "none"
     /\ hexToBytes(cur.b).ok
     /\ Len(hexToBytes(cur.b).bytes) >= MinEnvelopeLen
     /\ ~Authentic(cur.a, hexToBytes(cur.b).bytes))
        => /\ cur.out.st = "throw"
           /\ cur.out.err = "Failed to decrypt message or tag verification failed"

\* two calls of encrypt with the same key material, one after the other,
\* both returned
TwoEncrypts ==
    /\ cur.op = "encrypt"
    /\ prev.op = "encrypt"
    /\ cur.a = prev.a
    /\ cur.out.st = "ok"
    /\ prev.out.st = "ok"

\* C3 as stated: no two encrypt calls with the same key material use the same
\* nonce, and two calls encrypt(k, p) never return the same envelope.
C3_NonceNeverRepeats ==
    TwoEncrypts =>
        /\ cur.rnd # prev.rnd
        /\ cur.b = prev.b => cur.out.val # prev.out.val

\* C3: every call of encrypt that returns puts the nonce RAND_bytes wrote into
\* the first 12 bytes of its envelope, and two calls encrypt(k, p) with the
\* same k and p return the same envelope exactly when RAND_bytes wrote the
\* same nonce in both.
C3_EnvelopeCarriesDrawnNonce ==
    /\ (cur.op = "encrypt" /\ cur.out.st = "ok") =>
          SubSeq(cur.out.val, 1, 2 * NonceLen) = bytesToHex(cur.rnd)
    /\ (TwoEncrypts /\ cur.b = prev.b) =>
          (cur.out.val = prev.out.val <=> cur.rnd = prev.rnd)

\* two calls with the same key and plaintext drew different nonces
C3_Witness ==
    /\ TwoEncrypts
    /\ cur.b = prev.b
    /\ Len(cur.b) > 0
    /\ cur.rnd # prev.rnd
    /\ cur.out.val # prev.out.val

====
